---- MODULE Spec2Model ----
(***************************************************************************)
(* PyBB: a client for NodeBB forums (src/PyBB.py).                         *)
(*                                                                         *)
(* A Python str is modelled as a sequence of characters, each a one-token  *)
(* TLA+ string.  Two tokens stand for non-ASCII characters: "ar1" is       *)
(* U+0661 ARABIC-INDIC DIGIT ONE (str.isdigit and str.isdecimal hold,      *)
(* int() reads it as 1) and "sup2" is U+00B2 SUPERSCRIPT TWO (str.isdigit  *)
(* holds, str.isdecimal does not, int() rejects it).  In URLs a scheme and *)
(* authority, and a path segment, are single tokens.                       *)
(***************************************************************************)
EXTENDS Integers, Sequences, FiniteSets, TLC

VARIABLES
    hasPIL,   \* module flag: PIL could be imported
    forums,   \* the Forum objects constructed so far
    users,    \* the User objects constructed so far
    net,      \* every HTTP request issued so far, in order
    files,    \* the files written by dump_data
    last,     \* the last operation: its arguments and its outcome
    cin,      \* the argument of a direct call of process_data
    cparts,   \* the parts cin was assembled from, for an ISO-like text
    cout      \* the outcome of that call

vars == <<hasPIL, forums, users, net, files, last, cin, cparts, cout>>

----------------------------------------------------------------------------
(* Bounds *)

\* objects constructed and requests issued in one run
MaxForums == 1
MaxUsers == 2
MaxNet == 5

\* longest fractional part and longest digit run among the coercion inputs
MaxFracLen == 7
MaxDigitLen == 14

----------------------------------------------------------------------------
(* Characters *)

AsciiDigits == {"0", "1", "2", "3", "4", "5", "6", "7", "8", "9"}
\* characters of Unicode category Nd: matched by \d, accepted by int()
DecimalChars == AsciiDigits \cup {"ar1"}
\* characters for which str.isdigit() holds
DigitChars == DecimalChars \cup {"sup2"}

DigitValue(c) ==
    CASE c = "0" -> 0 [] c = "1" -> 1 [] c = "2" -> 2 [] c = "3" -> 3
      [] c = "4" -> 4 [] c = "5" -> 5 [] c = "6" -> 6 [] c = "7" -> 7
      [] c = "8" -> 8 [] c = "9" -> 9 [] c = "ar1" -> 1 [] OTHER -> 0

RECURSIVE Repeat(_, _)
Repeat(c, n) == IF n <= 0 THEN <<>> ELSE <<c>> \o Repeat(c, n - 1)

\* s[a..b], empty when b < a
Slice(s, a, b) == SubSeq(s, a, b)

----------------------------------------------------------------------------
(* Python values.  s is the text of a str and the str() of an int, float,  *)
(* bool, list or dict; f holds the fields of a datetime.                   *)

Val(t, s) == [t |-> t, s |-> s, via |-> "", f |-> <<>>]
Str(s) == Val("str", s)
None == Val("none", <<>>)
DateTime(via, f) == [t |-> "datetime", s |-> <<>>, via |-> via, f |-> f]

\* outcome of a call: a returned value or a raised exception
Return(v) == [exc |-> "", val |-> v]
Raise(e) == [exc |-> e, val |-> None]
Pending == [exc |-> "pending", val |-> None]

\* str(data)
PyStr(v) == IF v.t = "none" THEN <<"N", "o", "n", "e">> ELSE v.s

\* bool(data)
Truthy(v) ==
    CASE v.t = "none" -> FALSE
      [] v.t = "str" -> v.s # <<>>
      [] v.t = "int" -> v.s # <<"0">>
      [] v.t = "bool" -> v.s = <<"True">>
      [] v.t \in {"list", "dict"} -> Len(v.s) > 2
      [] OTHER -> TRUE

\* str.isdigit()
isdigit(s) == Len(s) > 0 /\ \A i \in 1..Len(s) : s[i] \in DigitChars

\* the number written by at most nine decimal characters
RECURSIVE Num(_)
Num(s) == IF s = <<>> THEN 0
          ELSE 10 * Num(Slice(s, 1, Len(s) - 1)) + DigitValue(s[Len(s)])

\* int(data) for a value whose str() passed isdigit(): the decimal digits
\* of the integer, or ValueError for a digit character int() cannot read
PyInt(v) ==
    IF \A i \in 1..Len(PyStr(v)) : PyStr(v)[i] \in DecimalChars
    THEN [exc |-> "", digits |-> [i \in 1..Len(PyStr(v)) |-> DigitValue(PyStr(v)[i])]]
    ELSE [exc |-> "ValueError", digits |-> <<>>]

RECURSIVE NumOfDigits(_)
NumOfDigits(d) == IF d = <<>> THEN 0
                  ELSE 10 * NumOfDigits(Slice(d, 1, Len(d) - 1)) + d[Len(d)]

\* datetime.fromtimestamp(ms / 1000) for a 13-digit ms: the instant
\* (f[1] * 10^5 + f[2]) seconds and f[3] milliseconds after the epoch.
\* The float division is kept to millisecond resolution.
fromtimestamp(d) ==
    DateTime("fromtimestamp",
             <<NumOfDigits(Slice(d, 1, 5)), NumOfDigits(Slice(d, 6, 10)),
               NumOfDigits(Slice(d, 11, 13))>>)

----------------------------------------------------------------------------
(* datetime.strptime(data, "%Y-%m-%dT%H:%M:%S.%fZ")                        *)

IsDec(c) == c \in DecimalChars
In(c, lo, hi) == c \in AsciiDigits /\ DigitValue(c) >= lo /\ DigitValue(c) <= hi

\* %Y  \d\d\d\d
MatchY(p) == Len(p) = 4 /\ \A i \in 1..4 : IsDec(p[i])
\* %m  1[0-2]|0[1-9]|[1-9]
MatchMonth(p) ==
    \/ Len(p) = 2 /\ p[1] = "1" /\ In(p[2], 0, 2)
    \/ Len(p) = 2 /\ p[1] = "0" /\ In(p[2], 1, 9)
    \/ Len(p) = 1 /\ In(p[1], 1, 9)
\* %d  3[0-1]|[1-2]\d|0[1-9]|[1-9]| [1-9]
MatchDay(p) ==
    \/ Len(p) = 2 /\ p[1] = "3" /\ In(p[2], 0, 1)
    \/ Len(p) = 2 /\ In(p[1], 1, 2) /\ IsDec(p[2])
    \/ Len(p) = 2 /\ p[1] = "0" /\ In(p[2], 1, 9)
    \/ Len(p) = 1 /\ In(p[1], 1, 9)
    \/ Len(p) = 2 /\ p[1] = " " /\ In(p[2], 1, 9)
\* %H  2[0-3]|[0-1]\d|\d
MatchH(p) ==
    \/ Len(p) = 2 /\ p[1] = "2" /\ In(p[2], 0, 3)
    \/ Len(p) = 2 /\ In(p[1], 0, 1) /\ IsDec(p[2])
    \/ Len(p) = 1 /\ IsDec(p[1])
\* %M  [0-5]\d|\d
MatchM(p) ==
    \/ Len(p) = 2 /\ In(p[1], 0, 5) /\ IsDec(p[2])
    \/ Len(p) = 1 /\ IsDec(p[1])
\* %S  6[0-1]|[0-5]\d|\d
MatchS(p) ==
    \/ Len(p) = 2 /\ p[1] = "6" /\ In(p[2], 0, 1)
    \/ Len(p) = 2 /\ In(p[1], 0, 5) /\ IsDec(p[2])
    \/ Len(p) = 1 /\ IsDec(p[1])
MatchF_UpTo7(p) == Len(p) \in 1..7 /\ \A i \in 1..Len(p) : p[i] \in AsciiDigits
\* %f  [0-9]{1,6}
MatchF(p) == Len(p) \in 1..6 /\ \A i \in 1..Len(p) : p[i] \in AsciiDigits

\* the literal characters of the format; the regex is compiled IGNORECASE
LitEq(c, lit) == \/ c = lit
                 \/ lit = "T" /\ c = "t"
                 \/ lit = "Z" /\ c = "z"

\* the splits of s into the seven fields: the end position of each field
StrptimeSplits(s) ==
    { e \in { <<4, 5 + lm, 6 + lm + ld, 7 + lm + ld + lH,
                8 + lm + ld + lH + lM, 9 + lm + ld + lH + lM + lS,
                Len(s) - 1>> :
                lm \in 1..2, ld \in 1..2, lH \in 1..2, lM \in 1..2, lS \in 1..2 } :
        /\ e[7] > e[6] + 1
        /\ MatchY(Slice(s, 1, e[1]))          /\ LitEq(s[e[1] + 1], "-")
        /\ MatchMonth(Slice(s, e[1] + 2, e[2])) /\ LitEq(s[e[2] + 1], "-")
        /\ MatchDay(Slice(s, e[2] + 2, e[3]))   /\ LitEq(s[e[3] + 1], "T")
        /\ MatchH(Slice(s, e[3] + 2, e[4]))     /\ LitEq(s[e[4] + 1], ":")
        /\ MatchM(Slice(s, e[4] + 2, e[5]))     /\ LitEq(s[e[5] + 1], ":")
        /\ MatchS(Slice(s, e[5] + 2, e[6]))     /\ LitEq(s[e[6] + 1], ".")
        /\ MatchF(Slice(s, e[6] + 2, e[7]))     /\ LitEq(s[e[7] + 1], "Z") }

\* int() of a matched field; int(" 7") is 7
FieldNum(p) == IF p[1] = " " THEN Num(Tail(p)) ELSE Num(p)

\* the fraction is padded on the right to microseconds
Fraction(p) == Num(p \o Repeat("0", 6 - Len(p)))

IsLeap(y) == y % 4 = 0 /\ (y % 100 # 0 \/ y % 400 = 0)
DaysInMonth(y, m) ==
    IF m = 2 THEN (IF IsLeap(y) THEN 29 ELSE 28)
    ELSE IF m \in {4, 6, 9, 11} THEN 30 ELSE 31

\* datetime(year, month, day, hour, minute, second, microsecond)
MakeDateTime(f) ==
    IF f[1] < 1 \/ f[3] > DaysInMonth(f[1], f[2]) \/ f[6] > 59
    THEN Raise("ValueError")
    ELSE Return(DateTime("strptime", f))

strptime(data) ==
    IF data.t # "str" THEN Raise("TypeError")
    ELSE LET s == data.s
             sp == IF Len(s) < 15 THEN {} ELSE StrptimeSplits(s) IN
         IF sp = {} THEN Raise("ValueError")
         ELSE LET e == CHOOSE x \in sp : TRUE IN
              MakeDateTime(<<FieldNum(Slice(s, 1, e[1])),
                             FieldNum(Slice(s, e[1] + 2, e[2])),
                             FieldNum(Slice(s, e[2] + 2, e[3])),
                             FieldNum(Slice(s, e[3] + 2, e[4])),
                             FieldNum(Slice(s, e[4] + 2, e[5])),
                             FieldNum(Slice(s, e[5] + 2, e[6])),
                             Fraction(Slice(s, e[6] + 2, e[7]))>>)

----------------------------------------------------------------------------
(* process_data *)

process_data(data) ==
    IF isdigit(PyStr(data)) /\ Len(PyStr(data)) = 13
    THEN LET i == PyInt(data) IN
         IF i.exc # "" THEN Raise(i.exc) ELSE Return(fromtimestamp(i.digits))
    ELSE LET r == strptime(data) IN
         IF r.exc \in {"ValueError", "TypeError"} THEN Return(data) ELSE r

----------------------------------------------------------------------------
(* Inputs of the coercion *)

Y2021 == <<"2", "0", "2", "1">>
Y2020 == <<"2", "0", "2", "0">>
Y0000 == <<"0", "0", "0", "0">>
FracDigits == <<"1", "2", "3", "4", "5", "6", "7", "8", "9">>

\* the parts an ISO-like string is assembled from
IsoParts ==
    [ y : {Y2021, Y2020, Y0000},
      dsep : {"-", "/"},
      mon : {<<"0", "2">>, <<"2">>, <<"1", "3">>},
      day : {<<"2", "9">>, <<"0", "1">>},
      tsep : {"T", "t", " "},
      sec : {<<"5", "9">>, <<"6", "0">>},
      dot : BOOLEAN,
      flen : 0..MaxFracLen,
      z : {<<"Z">>, <<"z">>, <<>>} ]

IsoText(p) ==
    p.y \o <<p.dsep>> \o p.mon \o <<p.dsep>> \o p.day \o <<p.tsep>>
        \o <<"2", "3", ":", "0", "7", ":">> \o p.sec
        \o (IF p.dot THEN <<".">> ELSE <<>>) \o Slice(FracDigits, 1, p.flen) \o p.z

IsoInputs == { Str(IsoText(p)) : p \in IsoParts }

\* the parts of an input that is not assembled
NoParts == [y |-> <<>>, dsep |-> "", mon |-> <<>>, day |-> <<>>, tsep |-> "",
            sec |-> <<>>, dot |-> FALSE, flen |-> 0, z |-> <<>>]

Ms2021 == <<"1", "6", "0", "9", "4", "5", "9", "2", "0", "0", "1", "2", "3">>

\* runs of one character, and a 13-digit run with one character replaced
DigitInputs ==
    { Str(Repeat(c, n)) : c \in {"9", "0", "sup2", "ar1", "a"}, n \in 11..MaxDigitLen }
    \cup { Str([Ms2021 EXCEPT ![i] = c]) : i \in {1, 7, 13}, c \in {"sup2", "ar1", "a", "-", "."} }
    \cup { Str(Slice(Ms2021, 1, n)) : n \in 11..13 }
    \cup { Str(Ms2021 \o Repeat("0", n)) : n \in 0..(MaxDigitLen - 13) }

OtherInputs ==
    { Val("int", Ms2021), Val("int", Slice(Ms2021, 1, 12)), Val("int", <<"5">>),
      Val("int", <<"0">>), Val("int", <<"-">> \o Slice(Ms2021, 1, 12)),
      Val("float", <<"1", ".", "5">>), Val("bool", <<"True">>),
      Val("bool", <<"False">>), None, Val("list", <<"[", "1", "]">>),
      Val("list", <<"[", "]">>), Val("dict", <<"{", "a", ":", "1", "}">>),
      Val("dict", <<"{", "}">>), Str(<<>>), Str(<<"h", "e", "l", "l", "o">>),
      Str(<<"/", "uploads", "/", "a.png">>) }

CoerceInputs == IsoInputs \cup DigitInputs \cup OtherInputs

----------------------------------------------------------------------------
(* URLs and urllib.parse.urljoin.  The model covers references that are   *)
(* empty, absolute, rooted ("/...") or relative without dot segments.     *)

Origins == {"https://f.example"}

BaseURLs == { <<"https://f.example", "/", "community">> }

RECURSIVE DirOf(_)
\* the base up to and including its last "/"
DirOf(b) == IF b = <<>> \/ b[Len(b)] = "/" THEN b ELSE DirOf(Slice(b, 1, Len(b) - 1))

urljoin(base, url) ==
    IF ~Truthy(url) THEN Return(Str(base))
    ELSE IF url.t # "str" THEN Raise("TypeError")
    ELSE IF url.s[1] \in Origins THEN Return(url)
    ELSE IF url.s[1] = "/" THEN Return(Str(<<base[1]>> \o url.s))
    ELSE Return(Str(DirOf(base) \o url.s))

Request(method, url) == [method |-> method, url |-> url]

----------------------------------------------------------------------------
(* What the server may answer *)

VHello == Str(<<"h", "e", "l", "l", "o">>)
VTitle == Str(<<"M", "y", " ", "B", "B">>)
VMs == Str(Ms2021)
VIso == Str(Y2021 \o <<"-", "0", "2", "-", "0", "1", "T", "2", "3", ":", "0", "7",
                      ":", "5", "9", ".", "1", "2", "3", "Z">>)
VPic == Str(<<"/", "uploads", "/", "a.png">>)

EmptyDoc == <<>>

Headers == {"NodeBB", "nodebb", "Express", "absent"}

ApiDocs == { EmptyDoc,
             ("a" :> VMs) @@ ("title" :> VHello) @@ ("lastposttime" :> VIso) }

ConfigDocs == { ("siteTitle" :> VTitle),
                ("siteTitle" :> VMs) @@ ("a" :> VHello) @@ ("b" :> VIso),
                ("a" :> VHello) }

UserDocs == { EmptyDoc,
              ("picture" :> VPic) @@ ("joindate" :> VMs) @@ ("username" :> VHello),
              ("picture" :> VMs) }

Usernames == { <<"bob">> }

\* the outcome of requests.get(...) followed by json.loads(...)
JsonResponses(docs) ==
    { [exc |-> "", doc |-> d] : d \in docs }
    \cup { [exc |-> e, doc |-> EmptyDoc] : e \in {"ConnectionError", "JSONDecodeError"} }

\* the outcome of requests.head(...).headers
HeadResponses ==
    { [exc |-> "", header |-> h] : h \in Headers }
    \cup { [exc |-> "ConnectionError", header |-> ""] }

\* the attribute names read in the model
AttrKeys == {"title", "data", "a", "b", "picture", "missing"}

----------------------------------------------------------------------------
(* State *)

\* the files dump_data can write under '.'; <<>> is a file that does not exist
FileNames == { <<"forum", ".json">> } \cup { n \o <<".json">> : n \in Usernames }
NoFiles == [n \in FileNames |-> <<>>]

NoOp == [op |-> "", obj |-> 0, key |-> "", resp |-> "", exc |-> "", val |-> None]

Done(op, obj, key, resp, r) ==
    [op |-> op, obj |-> obj, key |-> key, resp |-> resp, exc |-> r.exc, val |-> r.val]

Init == /\ hasPIL \in BOOLEAN
        /\ forums = <<>>
        /\ users = <<>>
        /\ net = <<>>
        /\ files = NoFiles
        /\ last = NoOp
        /\ cin = None
        /\ cparts = NoParts
        /\ cout = Pending

----------------------------------------------------------------------------
(* Forum *)

Object(name) == Val("object", <<name>>)

\* the header test of Forum.__init__; "absent" is a response without the header
HeaderOk_AnyCase(header) == header \in {"NodeBB", "nodebb"}
HeaderOk(header) == header = "NodeBB"

\* the requests of Forum.__init__, in the order it issues them
ForumRequests_ConfigFirst(url) ==
    LET endpoint == urljoin(url, Str(<<"api", "/">>)).val.s IN
    << Request("HEAD", url),
       Request("GET", urljoin(endpoint, Str(<<"config">>)).val.s),
       Request("GET", endpoint) >>
ForumRequests(url) ==
    LET endpoint == urljoin(url, Str(<<"api", "/">>)).val.s IN
    << Request("HEAD", url),
       Request("GET", endpoint),
       Request("GET", urljoin(endpoint, Str(<<"config">>)).val.s) >>

\* Forum.__init__
NewForum(url, head, api, cfg) ==
    LET endpoint == urljoin(url, Str(<<"api", "/">>)).val.s
        r1 == ForumRequests(url)[1]
        r2 == ForumRequests(url)[2]
        r3 == ForumRequests(url)[3]
        fail(sent, e) ==
            /\ net' = net \o sent
            /\ last' = Done("Forum", 0, "", head.header, Raise(e))
            /\ UNCHANGED forums
    IN
    /\ Len(forums) < MaxForums
    /\ Len(net) + 3 <= MaxNet
    /\ IF head.exc # "" THEN fail(<<r1>>, head.exc)
       ELSE IF ~HeaderOk(head.header) THEN fail(<<r1>>, "ValueError")
       ELSE IF api.exc # "" THEN fail(<<r1, r2>>, api.exc)
       ELSE IF cfg.exc # "" THEN fail(<<r1, r2, r3>>, cfg.exc)
       ELSE IF "siteTitle" \notin DOMAIN cfg.doc THEN fail(<<r1, r2, r3>>, "KeyError")
       ELSE /\ net' = net \o <<r1, r2, r3>>
            /\ forums' = Append(forums, [url |-> url, endpoint |-> endpoint,
                                         data |-> api.doc, config |-> cfg.doc,
                                         title |-> cfg.doc["siteTitle"]])
            /\ last' = Done("Forum", Len(forums) + 1, "", head.header,
                            Return(Object("Forum")))
    /\ UNCHANGED <<hasPIL, users, files, cin, cparts, cout>>

\* the names found on a Forum by normal attribute lookup
ForumIntrinsic == {"url", "head", "endpoint", "api_url", "req", "data", "configurl",
                   "configreq", "config", "title", "dump_data", "User"}

ForumIntrinsicValue(f, key) ==
    CASE key = "url" -> Str(f.url)
      [] key \in {"endpoint", "api_url"} -> Str(f.endpoint)
      [] key = "title" -> f.title
      [] OTHER -> Object(key)

Forum__getattr__ConfigFirst(f, key) ==
    IF key \in DOMAIN f.config THEN process_data(f.config[key])
    ELSE IF key \in DOMAIN f.data THEN process_data(f.data[key])
    ELSE process_data(None)

\* Forum.__getattr__
Forum__getattr__(f, key) ==
    IF key \in DOMAIN f.data THEN process_data(f.data[key])
    ELSE IF key \in DOMAIN f.config THEN process_data(f.config[key])
    ELSE process_data(None)

\* forum.<key>: normal lookup first, __getattr__ only when that fails
ForumRead(f, key) ==
    IF key \in ForumIntrinsic THEN Return(ForumIntrinsicValue(f, key))
    ELSE Forum__getattr__(f, key)

ForumGetAttr(i, key) ==
    /\ last' = Done("Forum.getattr", i, key, "", ForumRead(forums[i], key))
    /\ UNCHANGED <<hasPIL, forums, users, net, files, cin, cparts, cout>>

\* every key of the model in lexicographic order, as sort_keys=True orders them
SortedKeys == <<"a", "b", "joindate", "lastposttime", "picture", "siteTitle",
                "title", "username">>

\* json.dumps(doc, indent=2, sort_keys=True): the members in key order
dumps(doc) ==
    LET Keep(k) == k \in DOMAIN doc
        ks == SelectSeq(SortedKeys, Keep)
    IN [n \in 1..Len(ks) |-> <<ks[n], doc[ks[n]]>>]

\* open(path, 'w') and write: the file is created or overwritten
WriteFile(name, text) == [files EXCEPT ![name] = <<text>>]

\* Forum.dump_data, path '.'
ForumDump(i, ok) ==
    /\ IF ok
       THEN /\ files' = WriteFile(<<"forum", ".json">>, dumps(forums[i].data))
            /\ last' = Done("Forum.dump_data", i, "", "", Return(None))
       ELSE /\ last' = Done("Forum.dump_data", i, "", "", Raise("OSError"))
            /\ UNCHANGED files
    /\ UNCHANGED <<hasPIL, forums, users, net, cin, cparts, cout>>

----------------------------------------------------------------------------
(* User *)

NewUser_SharedDoc(i, username, resp) ==
    LET api_url == urljoin(forums[i].endpoint, Str(<<"user", "/">> \o username)).val.s IN
    /\ Len(users) < MaxUsers
    /\ Len(net) + 1 <= MaxNet
    /\ net' = Append(net, Request("GET", api_url))
    /\ IF resp.exc # ""
       THEN /\ last' = Done("User", 0, "", "", Raise(resp.exc))
            /\ UNCHANGED <<users, forums>>
       ELSE /\ users' = Append(users, [forum |-> i, username |-> username,
                                       data |-> resp.doc])
            /\ forums' = [forums EXCEPT ![i].data = resp.doc]
            /\ last' = Done("User", Len(users) + 1, "", "", Return(Object("User")))
    /\ UNCHANGED <<hasPIL, files, cin, cparts, cout>>

\* Forum.User and User.__init__
NewUser(i, username, resp) ==
    LET api_url == urljoin(forums[i].endpoint, Str(<<"user", "/">> \o username)).val.s IN
    /\ Len(users) < MaxUsers
    /\ Len(net) + 1 <= MaxNet
    /\ net' = Append(net, Request("GET", api_url))
    /\ IF resp.exc # ""
       THEN /\ last' = Done("User", 0, "", "", Raise(resp.exc))
            /\ UNCHANGED users
       ELSE /\ users' = Append(users, [forum |-> i, username |-> username,
                                       data |-> resp.doc])
            /\ last' = Done("User", Len(users) + 1, "", "", Return(Object("User")))
    /\ UNCHANGED <<hasPIL, forums, files, cin, cparts, cout>>

\* the names found on a User by normal attribute lookup, the image property aside
UserIntrinsic == {"forum", "username", "api_url", "req", "data", "dump_data"}

UserIntrinsicValue(u, key) ==
    CASE key = "username" -> Str(u.username)
      [] key = "api_url" ->
            urljoin(forums[u.forum].endpoint, Str(<<"user", "/">> \o u.username)).val
      [] OTHER -> Object(key)

User__getattr__Strict(u, key) ==
    IF key \in DOMAIN u.data THEN process_data(u.data[key])
    ELSE Raise("AttributeError")

\* User.__getattr__
User__getattr__(u, key) ==
    IF key \in DOMAIN u.data THEN process_data(u.data[key])
    ELSE process_data(None)

UserRead(u, key) ==
    IF key \in UserIntrinsic THEN Return(UserIntrinsicValue(u, key))
    ELSE User__getattr__(u, key)

UserGetAttr(j, key) ==
    /\ last' = Done("User.getattr", j, key, "", UserRead(users[j], key))
    /\ UNCHANGED <<hasPIL, forums, users, net, files, cin, cparts, cout>>

\* User.image; got is the outcome of the fetch and of Image.open
UserImage(j, got) ==
    LET u == users[j]
        picture == UserRead(u, "picture")
        imgurl == IF picture.exc # "" THEN picture
                  ELSE urljoin(forums[u.forum].endpoint, picture.val)
    IN
    /\ hasPIL /\ imgurl.exc = "" => Len(net) + 1 <= MaxNet
    /\ IF imgurl.exc # "" \/ ~hasPIL
       THEN /\ last' = Done("User.image", j, "", "", imgurl)
            /\ UNCHANGED net
       ELSE /\ net' = Append(net, Request("GET", imgurl.val.s))
            /\ last' = Done("User.image", j, "", "",
                            IF got = "" THEN Return(Object("Image")) ELSE Raise(got))
    /\ UNCHANGED <<hasPIL, forums, users, files, cin, cparts, cout>>

\* User.dump_data, path '.'
UserDump(j, ok) ==
    /\ IF ok
       THEN /\ files' = WriteFile(users[j].username \o <<".json">>, dumps(users[j].data))
            /\ last' = Done("User.dump_data", j, "", "", Return(None))
       ELSE /\ last' = Done("User.dump_data", j, "", "", Raise("OSError"))
            /\ UNCHANGED files
    /\ UNCHANGED <<hasPIL, forums, users, net, cin, cparts, cout>>

----------------------------------------------------------------------------

Next ==
    \/ \E url \in BaseURLs, head \in HeadResponses,
          api \in JsonResponses(ApiDocs), cfg \in JsonResponses(ConfigDocs) :
            NewForum(url, head, api, cfg)
    \/ \E i \in 1..Len(forums), key \in AttrKeys : ForumGetAttr(i, key)
    \/ \E i \in 1..Len(forums), ok \in BOOLEAN : ForumDump(i, ok)
    \/ \E i \in 1..Len(forums), name \in Usernames, resp \in JsonResponses(UserDocs) :
            NewUser(i, name, resp)
    \/ \E j \in 1..Len(users), key \in AttrKeys : UserGetAttr(j, key)
    \/ \E j \in 1..Len(users),
          got \in {"", "ConnectionError", "UnidentifiedImageError"} : UserImage(j, got)
    \/ \E j \in 1..Len(users), ok \in BOOLEAN : UserDump(j, ok)

Spec == Init /\ [][Next]_vars

----------------------------------------------------------------------------
(* The coercion applied to one input *)

InitCoerce == /\ \/ cparts \in IsoParts /\ cin = Str(IsoText(cparts))
                 \/ cparts = NoParts /\ cin \in DigitInputs \cup OtherInputs
              /\ cout = Pending
              /\ hasPIL \in BOOLEAN
              /\ forums = <<>>
              /\ users = <<>>
              /\ net = <<>>
              /\ files = NoFiles
              /\ last = NoOp

Coerce == /\ cout = Pending
          /\ cout' = process_data(cin)
          /\ UNCHANGED <<cin, cparts, hasPIL, forums, users, net, files, last>>

NextCoerce == Coerce

SpecCoerce == InitCoerce /\ [][NextCoerce]_vars

----------------------------------------------------------------------------
(* Properties *)

\* what urljoin gives for a plain string
Joined(base, s) == urljoin(base, Str(s)).val

\* the requests the last step added to net
Delta == SubSeq(net', Len(net) + 1, Len(net'))
Extends == Len(net') >= Len(net) /\ SubSeq(net', 1, Len(net)) = net

\* C1: process_data never raises: for every input it returns a timestamp or
\* the input itself.
C1_NeverRaises ==
    cout # Pending => /\ cout.exc = ""
                      /\ cout.val.t = "datetime" \/ cout.val = cin

\* the instant a 13-character text denotes when read as milliseconds
EpochOf(s) == DateTime("fromtimestamp",
                       <<Num(Slice(s, 1, 5)), Num(Slice(s, 6, 10)), Num(Slice(s, 11, 13))>>)

\* C5: a string of 13 digit characters is returned as the instant value/1000
\* seconds after the epoch; no other string is converted by that rule.
C5_MsEpoch ==
    (cin.t = "str" /\ cout # Pending) =>
        IF Len(cin.s) = 13 /\ \A i \in 1..13 : cin.s[i] \in DigitChars
        THEN cout = Return(EpochOf(cin.s))
        ELSE ~(cout.val.t = "datetime" /\ cout.val.via = "fromtimestamp")

\* the fields an assembled ISO-like string denotes
RECURSIVE Pow10(_)
Pow10(n) == IF n = 0 THEN 1 ELSE 10 * Pow10(n - 1)
IsoFields(p) ==
    << Num(p.y), Num(p.mon), Num(p.day), 23, 7, Num(p.sec),
       Num(Slice(FracDigits, 1, p.flen)) * Pow10(6 - p.flen) >>
IsoValid(p) ==
    /\ Len(p.mon) = 2 /\ Num(p.mon) \in 1..12
    /\ Num(p.y) >= 1
    /\ Num(p.day) >= 1
    /\ Num(p.day) <= DaysInMonth(Num(p.y), Num(p.mon))
    /\ Num(p.sec) <= 59

\* C6 as claimed: exactly the strings YYYY-MM-DDTHH:MM:SS.ffffffZ are parsed;
\* with wrong separators, a missing Z or a fraction that is not 6 digits long
\* such a string is returned unchanged.
C6_ExactSixDigits ==
    LET p == cparts IN
        (p # NoParts /\ cout # Pending) =>
            /\ ( /\ p.dsep = "-" /\ p.tsep = "T" /\ p.dot /\ p.flen = 6
                 /\ p.z = <<"Z">> /\ IsoValid(p) )
                 => cout = Return(DateTime("strptime", IsoFields(p)))
            /\ ( /\ IsoValid(p)
                 /\ \/ p.dsep # "-" \/ p.tsep # "T" \/ ~p.dot \/ p.z # <<"Z">>
                    \/ p.flen # 6 )
                 => cout = Return(cin)

\* C6 amended: the strings YYYY-MM-DDTHH:MM:SS.fZ with valid fields and a
\* fraction of 1 to 6 digits, T and Z in either case, are parsed, the fraction
\* read as a decimal fraction of a second; a wrong separator, a missing Z, no
\* fraction or a fraction of more than 6 digits leave the string unchanged.
C6_OneToSixDigits ==
    LET p == cparts IN
        (p # NoParts /\ cout # Pending) =>
            /\ ( /\ p.dsep = "-" /\ p.tsep \in {"T", "t"} /\ p.dot /\ p.flen \in 1..6
                 /\ p.z \in {<<"Z">>, <<"z">>} /\ IsoValid(p) )
                 => cout = Return(DateTime("strptime", IsoFields(p)))
            /\ ( \/ p.dsep # "-" \/ p.tsep \notin {"T", "t"} \/ ~p.dot \/ p.z = <<>>
                 \/ p.flen = 0 \/ p.flen > 6 )
                 => cout = Return(cin)

C6_Witness ==
    /\ cout.exc = "" /\ cout.val.t = "datetime" /\ cout.val.via = "strptime"
    /\ cout.val.f[7] = 123000
    /\ cparts # NoParts /\ cparts.flen = 3

\* C2: a Forum construction whose HEAD response lacks X-Powered-By: NodeBB
\* raises, creates no Forum and has issued the HEAD request only.
C2_HeaderGate ==
    [][ (last'.op = "Forum" /\ last'.resp \in Headers \ {"NodeBB"}) =>
            /\ last'.exc = "ValueError"
            /\ last'.obj = 0
            /\ forums' = forums
            /\ Extends
            /\ Len(Delta) = 1
            /\ Delta[1].method = "HEAD" ]_vars

C2_Witness ==
    /\ last.op = "Forum" /\ last.resp = "absent" /\ last.exc = "ValueError"
    /\ Len(net) = 1 /\ forums = <<>>

\* C3: a Forum attribute resolves to the intrinsic attribute of that name,
\* else to the coerced apiData entry, else to the coerced config entry.
C3_ResolutionOrder ==
    last.op = "Forum.getattr" =>
        LET f == forums[last.obj]
            k == last.key
            r == [exc |-> last.exc, val |-> last.val]
        IN IF k = "title" THEN r = Return(f.config["siteTitle"])
           ELSE IF k = "data" THEN r = Return(Object("data"))
           ELSE IF k \in DOMAIN f.data THEN r = process_data(f.data[k])
           ELSE k \in DOMAIN f.config => r = process_data(f.config[k])

C3_Witness ==
    /\ last.op = "Forum.getattr" /\ last.key = "a"
    /\ "a" \in DOMAIN forums[last.obj].data
    /\ "a" \in DOMAIN forums[last.obj].config
    /\ process_data(forums[last.obj].data["a"])
           # process_data(forums[last.obj].config["a"])
    /\ last.val.t = "datetime"

\* C4: reading a key that is neither intrinsic nor in a backing document
\* returns None and does not raise.
C4_MissingIsNone ==
    /\ (last.op = "Forum.getattr" /\ last.key \notin ForumIntrinsic
          /\ last.key \notin DOMAIN forums[last.obj].data
          /\ last.key \notin DOMAIN forums[last.obj].config)
         => (last.exc = "" /\ last.val = None)
    /\ (last.op = "User.getattr" /\ last.key \notin UserIntrinsic
          /\ last.key \notin DOMAIN users[last.obj].data)
         => (last.exc = "" /\ last.val = None)

C4_Witness ==
    /\ last.op = "User.getattr" /\ last.key = "missing"
    /\ "missing" \notin DOMAIN users[last.obj].data
    /\ last.val = None /\ last.exc = ""

\* C7: without PIL the image of a User is forum.endpoint joined with the raw
\* picture value taken as a plain string, whatever that value is.
C7_RawPicture ==
    (last.op = "User.image" /\ ~hasPIL /\ "picture" \in DOMAIN users[last.obj].data) =>
        /\ last.exc = ""
        /\ last.val = Joined(forums[users[last.obj].forum].endpoint,
                             PyStr(users[last.obj].data["picture"]))

\* C8: the image of a User whose document has no picture key ends in an error.
C8_NoPictureRaises ==
    (last.op = "User.image" /\ "picture" \notin DOMAIN users[last.obj].data) =>
        last.exc # ""

\* the requests a step may add to net
C9_Expected ==
    LET op == last'.op IN
    IF op = "Forum" THEN
        \E url \in BaseURLs :
           LET e == DirOf(url) \o <<"api", "/">>
               all == << Request("HEAD", url), Request("GET", e),
                         Request("GET", e \o <<"config">>) >>
           IN IF last'.exc = "" THEN Delta = all
              ELSE \E n \in 1..3 : Delta = SubSeq(all, 1, n)
    ELSE IF op = "User" THEN
        \E i \in 1..Len(forums), name \in Usernames :
           Delta = << Request("GET", forums[i].endpoint \o <<"user", "/">> \o name) >>
    ELSE IF op = "User.image" THEN
        LET u == users[last'.obj]
            pic == IF "picture" \in DOMAIN u.data THEN u.data["picture"] ELSE None
        IN IF hasPIL /\ last'.exc \notin {"TypeError", "ValueError"}
           THEN Delta = << Request("GET", urljoin(forums[u.forum].endpoint, pic).val.s) >>
           ELSE Delta = <<>>
    ELSE Delta = <<>>

C10_Immutable ==
    [][ /\ \A i \in 1..Len(forums) : Len(forums') >= i /\ forums'[i] = forums[i]
        /\ \A j \in 1..Len(users) : Len(users') >= j /\ users'[j] = users[j] ]_vars

C10_Witness ==
    /\ Len(forums) = 1 /\ Len(users) = 2
    /\ users[1].data # users[2].data
    /\ last.op = "User.dump_data" /\ last.exc = ""
    /\ files[<<"bob", ".json">>] = <<dumps(users[last.obj].data)>>

====
